---- MODULE Spec2Model ----
(***************************************************************************)
(* Word-Navigate: a model of the settings registry                         *)
(* (python/sublime_util/settings.py, validators.py), the region classifier *)
(* and word locator (python/sublime_util/view.py) and the navigation       *)
(* policy (python/word_navigate.py, python/sublime_util/selection.py).     *)
(*                                                                         *)
(* A buffer is a sequence of one-character strings; the character at       *)
(* offset i (0-based, as in the editor) is buf[i + 1].  A region is a      *)
(* record [a, b] of two offsets, b being the caret side.                   *)
(***************************************************************************)
EXTENDS Integers, Sequences, FiniteSets, TLC

VARIABLES
    buf,        \* the text buffer of the active view
    sel,        \* view.sel(): the sequence of selected regions
    value,      \* SingleSetting._value, per setting name
    callbacks,  \* SingleSetting._callbacks, per setting name: tag -> listener
    cls,        \* outcome of the last classifier evaluation
    nav,        \* outcome of the last navigation command
    reg,        \* outcome of the last settings-registry operation
    ops,        \* number of operations performed so far
    modules     \* module-level state of sublime_util/log.py and settings.py

vars == <<buf, sel, value, callbacks, cls, nav, reg, ops, modules>>

-----------------------------------------------------------------------------
(* Bounds of the model.                                                     *)

\* longest buffer enumerated exhaustively for the classifier
MaxLen == 4

\* longest run of settings-registry operations
MaxRegOps == 2

\* longest buffer enumerated exhaustively for the navigation commands
MaxNavLen == 2

\* longest region selected before the first navigation command
MaxSelLen == 3

\* longest buffer whose non-empty regions are enumerated; a longer buffer
\* starts with carets only
MaxRegionBuf == 8

\* largest magnitude of the integers handed to the integer-range setting
MaxInt == 2

\* longest run of calls to log.init, log.deinit and log.reinit
MaxLifeCalls == 4

\* most settings a settings file holds a value for
MaxStoreKeys == 3

-----------------------------------------------------------------------------
(* Characters.                                                              *)

Letters == {"a", "b", "A", "f", "l", "g", "p", "o", "e", "n", "r"}

Alphabet == {"a", "b", " ", ".", "\n"}

\* a character that is neither white space nor in word_separators
IsWordChar(c) == c \in Letters

Lower(c) == IF c = "A" THEN "a" ELSE c

Min(x, y) == IF x <= y THEN x ELSE y

Max(x, y) == IF x >= y THEN x ELSE y

-----------------------------------------------------------------------------
(* sublime.Region                                                           *)

Region(a, b) == [a |-> a, b |-> b]

Begin(r) == Min(r.a, r.b)

End(r) == Max(r.a, r.b)

Empty(r) == r.a = r.b

\* view.substr(region)
Substr(text, r) == SubSeq(text, Begin(r) + 1, End(r))

-----------------------------------------------------------------------------
(* Host primitives of sublime.View used by view.py: point classification    *)
(* and boundary search.                                                     *)

\* the character right of / left of offset pt is a word character
WordRight(text, pt) == pt >= 0 /\ pt < Len(text) /\ IsWordChar(text[pt + 1])

WordLeft(text, pt) == pt >= 1 /\ pt <= Len(text) /\ IsWordChar(text[pt])

\* view.classify(pt) & WORD_START
IsWordStart(text, pt) == WordRight(text, pt) /\ ~WordLeft(text, pt)

\* view.classify(pt) & WORD_END
IsWordEnd(text, pt) == WordLeft(text, pt) /\ ~WordRight(text, pt)

\* view.classify(pt) & classes, classes a subset of {"WS", "WE"}
HasClass(text, pt, classes) ==
    \/ "WS" \in classes /\ IsWordStart(text, pt)
    \/ "WE" \in classes /\ IsWordEnd(text, pt)

\* view.find_by_class(pt, forward, classes): the next location strictly after
\* (before) pt that has one of the classes; the buffer's end (start) if none
FindByClass(text, pt, forward, classes) ==
    IF forward
    THEN LET hits == {p \in (pt + 1)..Len(text) : HasClass(text, p, classes)}
         IN  IF hits = {} THEN Len(text)
             ELSE CHOOSE p \in hits : \A q \in hits : p <= q
    ELSE LET hits == {p \in 0..(pt - 1) : HasClass(text, p, classes)}
         IN  IF hits = {} THEN 0
             ELSE CHOOSE p \in hits : \A q \in hits : p >= q

\* view.expand_by_class(pt, classes)
ExpandByClass(text, pt, classes) ==
    Region(FindByClass(text, pt, FALSE, classes),
           FindByClass(text, pt, TRUE, classes))

-----------------------------------------------------------------------------
(* Region classifier (view.py).                                             *)

is_not_part_of_any_word(text, region) ==
    IF IsWordStart(text, Begin(region)) /\ Empty(region)
    THEN TRUE
    ELSE LET exp_start_pt == FindByClass(text, Begin(region), TRUE, {"WS", "WE"})
         IN  IF IsWordStart(text, exp_start_pt)
             THEN exp_start_pt >= End(region)
             ELSE FALSE

is_single_complete_word(text, region) ==
    IF IsWordStart(text, Begin(region))
    THEN FindByClass(text, Begin(region), TRUE, {"WE"}) = End(region)
    ELSE FALSE

is_multiple_complete_words(text, region) ==
    IF IsWordStart(text, Begin(region)) /\ IsWordEnd(text, End(region))
    THEN ~is_single_complete_word(text, region)
    ELSE FALSE

is_part_of_multiple_words(text, region) ==
    LET end_point   == FindByClass(text, Begin(region), TRUE, {"WE"})
        start_point == FindByClass(text, end_point, TRUE, {"WS"})
    IN  End(region) >= start_point + 1

\* The branch of the if/elif chain of _get_region_of_word_closest_to_region
\* that a region takes.
Shape(text, region) ==
    IF is_not_part_of_any_word(text, region) THEN "no_word"
    ELSE IF is_single_complete_word(text, region) THEN "single_word"
    ELSE IF is_multiple_complete_words(text, region) THEN "multiple_words"
    ELSE IF is_part_of_multiple_words(text, region) THEN "part_of_multiple"
    ELSE "part_of_single"

\* The four predicates evaluated on one region, and the branch taken.
Classification(text, region) ==
    [ no_word    |-> is_not_part_of_any_word(text, region),
      single     |-> is_single_complete_word(text, region),
      multiple   |-> is_multiple_complete_words(text, region),
      part_multi |-> is_part_of_multiple_words(text, region),
      shape      |-> Shape(text, region),
      done       |-> TRUE ]

-----------------------------------------------------------------------------
(* Further host primitives: rows and columns, view.word, view.find and      *)
(* view.find_all.                                                           *)

\* the offsets at which a line starts: 0 and the offset after every newline
LineStarts(text) == {0} \cup {i \in 1..Len(text) : text[i] = "\n"}

\* view.rowcol(pt)
RowCol(text, pt) ==
    LET p     == Max(0, Min(pt, Len(text)))
        befor == {s \in LineStarts(text) : s <= p}
        start == CHOOSE s \in befor : \A t \in befor : t <= s
    IN  [row |-> Cardinality(befor) - 1, col |-> p - start]

\* view.text_point(row, col); a row past the last one is the buffer's end
TextPoint(text, row, col) ==
    LET starts == LineStarts(text)
    IN  IF row >= Cardinality(starts) THEN Len(text)
        ELSE LET s == CHOOSE s \in starts :
                        Cardinality({t \in starts : t < s}) = row
             IN  Min(s + col, Len(text))

\* view.word(region): the region grown so that it starts at the beginning of
\* a word and ends at the end of a word
Word(text, region) ==
    LET b == Begin(region)
        e == End(region)
        nb == IF WordLeft(text, b) /\ (WordRight(text, b) \/ Empty(region))
              THEN FindByClass(text, b, FALSE, {"WS"})
              ELSE b
        ne == IF WordRight(text, e) /\ (WordLeft(text, e) \/ Empty(region))
              THEN FindByClass(text, e, TRUE, {"WE"})
              ELSE e
    IN  Region(nb, ne)

\* the regex \b at offset pt
IsBoundary(text, pt) == WordLeft(text, pt) # WordRight(text, pt)

\* one character of a pattern taken verbatim from the buffer against one
\* character of the buffer: "." is the regex wildcard
CharMatches(pc, c, ignorecase) ==
    IF pc = "." THEN c # "\n"
    ELSE IF ignorecase THEN Lower(pc) = Lower(c)
    ELSE pc = c

\* the regex \b<word>\b matches at offset i
MatchesAt(text, word, i, ignorecase) ==
    /\ i + Len(word) <= Len(text)
    /\ IsBoundary(text, i)
    /\ IsBoundary(text, i + Len(word))
    /\ \A k \in 1..Len(word) : CharMatches(word[k], text[i + k], ignorecase)

\* view.find(r"\b" + word + r"\b", point, flags): Region(-1, -1) if nothing
\* is found
Find(text, word, point, reverse, ignorecase, wrap) ==
    LET all  == {i \in 0..Len(text) : MatchesAt(text, word, i, ignorecase)}
        near == IF reverse THEN {i \in all : i + Len(word) <= point}
                ELSE {i \in all : i >= point}
        from == IF near # {} THEN near ELSE IF wrap THEN all ELSE {}
    IN  IF from = {} THEN Region(-1, -1)
        ELSE LET i == IF reverse THEN CHOOSE x \in from : \A y \in from : y <= x
                      ELSE CHOOSE x \in from : \A y \in from : x <= y
             IN  Region(i, i + Len(word))

\* view.find_all(r"\b(\w+)\b", flags, within = region): the words of the
\* buffer that lie within the region, in buffer order
RECURSIVE WordsFrom(_, _, _)
WordsFrom(text, from, to) ==
    LET starts == {p \in from..to : IsWordStart(text, p)}
    IN  IF starts = {} THEN << >>
        ELSE LET s == CHOOSE x \in starts : \A y \in starts : x <= y
                 e == FindByClass(text, s, TRUE, {"WE"})
             IN  IF e > to THEN << >>
                 ELSE <<Region(s, e)>> \o WordsFrom(text, e, to)

FindAll(text, within) == WordsFrom(text, Begin(within), End(within))

-----------------------------------------------------------------------------
(* Word locator (view.py).                                                  *)

\* the get_point callables of the three locators
GetPoint(mode, pt, region) ==
    CASE mode = "next"     -> End(region)
      [] mode = "previous" -> Begin(region)
      [] OTHER             ->
            IF pt - Begin(region) <= End(region) - pt
            THEN Begin(region) ELSE End(region)

_get_word_region_near_pt(text, pt, in_line, mode) ==
    LET expanded_region == ExpandByClass(text, pt, {"WS", "WE"})
    IN  IF IsWordStart(text, pt) THEN Region(pt, End(expanded_region))
        ELSE IF IsWordEnd(text, pt) THEN Region(Begin(expanded_region), pt)
        ELSE IF IsWordStart(text, Begin(expanded_region)) THEN expanded_region
        ELSE LET start_line == RowCol(text, pt).row
                 pt0        == GetPoint(mode, pt, expanded_region)
                 new_line   == RowCol(text, pt0).row
                 new_pt     ==
                    IF in_line /\ start_line # new_line
                    THEN IF new_line < start_line
                         THEN FindByClass(text, pt, TRUE, {"WS"})
                         ELSE FindByClass(text, pt, FALSE, {"WE"})
                    ELSE pt0
             IN  IF IsWordStart(text, new_pt)
                 THEN Region(new_pt, FindByClass(text, new_pt, TRUE, {"WE"}))
                 ELSE Region(FindByClass(text, new_pt, FALSE, {"WS"}), new_pt)

get_closest_word_region_from_pt(text, pt, in_line) ==
    _get_word_region_near_pt(text, pt, in_line, "closest")

get_next_word_region_from_pt(text, pt, in_line) ==
    _get_word_region_near_pt(text, pt, in_line, "next")

get_previous_word_region_from_pt(text, pt, in_line) ==
    _get_word_region_near_pt(text, pt, in_line, "previous")

-----------------------------------------------------------------------------
(* Same-word search and word-in-line search (view.py).                      *)

\* Python's None where a region is expected
NoRegion == Region(-1, -1)

\* the same-word search without the WRAP flag
get_region_of_closet_same_word_NoWrap(text, word_region, forward, wrap, case_sensitive) ==
    LET point  == IF forward THEN End(word_region) ELSE Begin(word_region)
        word   == Substr(text, word_region)
        region == Find(text, word, point, ~forward, ~case_sensitive, FALSE)
    IN  IF Empty(region) THEN NoRegion ELSE region

\* the same-word search started at the beginning of the word in both directions
get_region_of_closet_same_word_FromBegin(text, word_region, forward, wrap, case_sensitive) ==
    LET point  == Begin(word_region)
        word   == Substr(text, word_region)
        region == Find(text, word, point, ~forward, ~case_sensitive, wrap)
    IN  IF Empty(region) THEN NoRegion ELSE region

\* the same-word search started at the end of the word in both directions
get_region_of_closet_same_word_FromEnd(text, word_region, forward, wrap, case_sensitive) ==
    LET point  == End(word_region)
        word   == Substr(text, word_region)
        region == Find(text, word, point, ~forward, ~case_sensitive, wrap)
    IN  IF Empty(region) THEN NoRegion ELSE region

get_region_of_closet_same_word(text, word_region, forward, wrap, case_sensitive) ==
    LET point  == IF forward THEN End(word_region) ELSE Begin(word_region)
        word   == Substr(text, word_region)
        region == Find(text, word, point, ~forward, ~case_sensitive, wrap)
    IN  IF Empty(region) THEN NoRegion ELSE region

\* selection.reverse_region
reverse_region(region) == Region(End(region), Begin(region))

\* the line search reaching to the end (start) of the buffer instead of the
\* end (start) of the line
LineSearch_ToBufferEdge(text, forward, line, col) ==
    LET line_region ==
            IF forward
            THEN Region(TextPoint(text, line, col), Len(text))
            ELSE Region(0, TextPoint(text, line, col))
    IN  FindAll(text, line_region)

\* the helper _get_region_of_closet_word_in_line
LineSearch(text, forward, line, col) ==
    LET line_region ==
            IF forward
            THEN Region(TextPoint(text, line, col), TextPoint(text, line + 1, 0))
            ELSE Region(TextPoint(text, line, 0), TextPoint(text, line, col))
    IN  FindAll(text, line_region)

\* the first region for a forward search, the last one reversed for a
\* backward search
ChooseRegion(regions, forward) ==
    IF regions = << >> THEN NoRegion
    ELSE IF forward THEN regions[1]
    ELSE reverse_region(regions[Len(regions)])

\* the result and the number of line searches made
get_region_of_closest_word_in_line(text, point, forward, wrap) ==
    LET rowcol  == RowCol(text, point)
        line    == rowcol.row
        col     == rowcol.col
        regions == LineSearch(text, forward, line, col)
    IN  IF regions # << >>
        THEN [region |-> ChooseRegion(regions, forward), searches |-> 1]
        ELSE IF ~wrap THEN [region |-> NoRegion, searches |-> 1]
        ELSE LET rc2      == RowCol(text, TextPoint(text, line + 1, 0) - 1)
                 new_line == IF forward THEN line ELSE rc2.row
                 new_col  == IF forward THEN 0 ELSE rc2.col
             IN  IF col = new_col THEN [region |-> NoRegion, searches |-> 1]
                 ELSE [region |-> ChooseRegion(
                            LineSearch(text, forward, new_line, new_col), forward),
                       searches |-> 2]

-----------------------------------------------------------------------------
(* Inputs.                                                                  *)

RECURSIVE BuffersOfLen(_)
BuffersOfLen(n) ==
    IF n = 0 THEN {<<>>}
    ELSE {Append(s, c) : s \in BuffersOfLen(n - 1), c \in Alphabet}

AllBuffers == UNION {BuffersOfLen(n) : n \in 0..MaxLen}

RegionsOf(text) == {Region(a, b) : a \in 0..Len(text), b \in 0..Len(text)}

SettingNames ==
    <<"log_level", "use_index", "allow_multiple_words", "expand_first",
      "wrap_buffer", "wrap_line", "case_sensitive">>

NameSet == {SettingNames[i] : i \in 1..Len(SettingNames)}

\* Settings.__init__: str() of the default every setting is constructed with
\* (log.init passes logging.getLevelName of the default log level)
Defaults ==
    [n \in NameSet |->
        CASE n = "log_level"            -> "WARNING"
          [] n = "use_index"            -> "True"
          [] n = "allow_multiple_words" -> "True"
          [] n = "expand_first"         -> "True"
          [] n = "wrap_buffer"          -> "True"
          [] n = "wrap_line"            -> "True"
          [] n = "case_sensitive"       -> "False"]

NoCls == [done |-> FALSE]

NoNav == [cmd |-> "none"]

NoReg == [op |-> "none"]

\* the handler object log.py creates at import
Handler == "handler"

\* module-level state before the first call to log.init: log.initialized and
\* settings.initialized are False, the name settings of python/settings.py
\* is still the imported sublime_util.settings module, the package logger
\* has no handler and the settings file has no listener
Imported ==
    [log_initialized |-> FALSE, settings_initialized |-> FALSE,
     settings_obj |-> FALSE, handlers |-> {}, file_listener |-> FALSE]

\* module-level state after log.init
Loaded ==
    [log_initialized |-> TRUE, settings_initialized |-> TRUE,
     settings_obj |-> TRUE, handlers |-> {Handler}, file_listener |-> TRUE]

-----------------------------------------------------------------------------
(* Settings registry (sublime_util/settings.py, sublime_util/validators.py). *)
(*                                                                           *)
(* A Python value is modelled by its str() form, so the booleans are "True"  *)
(* and "False" and None is "None".  A raw value handed to _update is a       *)
(* record [kind, text]: kind "str" for a string, "bool" for a boolean of     *)
(* the settings file, text its str() form.                                   *)

None == "None"

\* str.lower() on the strings of the model
StrLower(s) ==
    CASE s = "True"    -> "true"
      [] s = "False"   -> "false"
      [] s = "None"    -> "none"
      [] s = "WARNING" -> "warning"
      [] OTHER         -> s

\* LogLevelSetting.__init__: the allowed values of log_level, in order
LogLevels == <<"debug", "info", "warning", "error">>

\* the validator class each setting is constructed with
ValidatorOf(name) == IF name = "log_level" THEN "ListValidator" ELSE "BooleanValidator"

\* BooleanValidator.validate
BooleanValidate(raw) ==
    LET v == StrLower(raw.text)
    IN  IF v = "true" THEN "True" ELSE IF v = "false" THEN "False" ELSE None

\* ListValidator.validate: value.lower() needs a string
ListValidate(allowed, raw) ==
    IF raw.kind # "str" THEN "AttributeError"
    ELSE LET hits == {i \in 1..Len(allowed) : StrLower(raw.text) = allowed[i]}
         IN  IF hits = {} THEN None
             ELSE allowed[CHOOSE i \in hits : \A j \in hits : i <= j]

\* SingleSetting.validate
Validate(name, raw) ==
    IF ValidatorOf(name) = "ListValidator"
    THEN ListValidate(LogLevels, raw)
    ELSE BooleanValidate(raw)

\* the listeners of a setting, in dict order, called with (name, old, new)
FireAll(cbs, name, old, new) ==
    [i \in 1..Len(cbs) |->
        [tag |-> cbs[i].tag, cb |-> cbs[i].cb, name |-> name, old |-> old, new |-> new]]

\* _update with the assignment made before the validator's answer is looked at
UpdateOutcome_AssignFirst(name, cur, cbs, raw) ==
    IF StrLower(raw.text) # StrLower(cur)
    THEN LET encoded_value == Validate(name, raw)
         IN  IF encoded_value = "AttributeError"
             THEN [value |-> cur, err |-> "AttributeError", fired |-> << >>]
             ELSE IF encoded_value # None
             THEN [value |-> encoded_value, err |-> "none",
                   fired |-> FireAll(cbs, name, cur, encoded_value)]
             ELSE [value |-> encoded_value, err |-> "ValueError", fired |-> << >>]
    ELSE [value |-> cur, err |-> "none", fired |-> << >>]

\* _update comparing the raw value with the current one case-sensitively
UpdateOutcome_ExactCompare(name, cur, cbs, raw) ==
    IF raw.text # cur
    THEN LET encoded_value == Validate(name, raw)
         IN  IF encoded_value = "AttributeError"
             THEN [value |-> cur, err |-> "AttributeError", fired |-> << >>]
             ELSE IF encoded_value # None
             THEN [value |-> encoded_value, err |-> "none",
                   fired |-> FireAll(cbs, name, cur, encoded_value)]
             ELSE [value |-> cur, err |-> "ValueError", fired |-> << >>]
    ELSE [value |-> cur, err |-> "none", fired |-> << >>]

\* SingleSetting._update on a setting holding `cur` with listeners `cbs`:
\* the value afterwards, the exception raised and the listener calls made
UpdateOutcome(name, cur, cbs, raw) ==
    IF StrLower(raw.text) # StrLower(cur)
    THEN LET encoded_value == Validate(name, raw)
         IN  IF encoded_value = "AttributeError"
             THEN [value |-> cur, err |-> "AttributeError", fired |-> << >>]
             ELSE IF encoded_value # None
             THEN [value |-> encoded_value, err |-> "none",
                   fired |-> FireAll(cbs, name, cur, encoded_value)]
             ELSE [value |-> cur, err |-> "ValueError", fired |-> << >>]
    ELSE [value |-> cur, err |-> "none", fired |-> << >>]

\* SingleSetting.__init__: _value = None, _callbacks = {}, _update(str(value))
Constructed(name) ==
    UpdateOutcome(name, None, << >>, [kind |-> "str", text |-> Defaults[name]]).value

HasTag(cbs, tag) == \E i \in 1..Len(cbs) : cbs[i].tag = tag

\* add_on_change storing the listener without looking for the tag first
AddOnChangeOutcome_Overwrite(cbs, tag, cb) ==
    IF HasTag(cbs, tag)
    THEN [cbs |-> [i \in 1..Len(cbs) |->
                     IF cbs[i].tag = tag THEN [tag |-> tag, cb |-> cb] ELSE cbs[i]],
          err |-> "none"]
    ELSE [cbs |-> Append(cbs, [tag |-> tag, cb |-> cb]), err |-> "none"]

\* SingleSetting.add_on_change
AddOnChangeOutcome(cbs, tag, cb) ==
    IF HasTag(cbs, tag)
    THEN [cbs |-> cbs, err |-> "ValueError"]
    ELSE [cbs |-> Append(cbs, [tag |-> tag, cb |-> cb]), err |-> "none"]

\* SingleSetting.clear_on_change
ClearOnChangeOutcome(cbs, tag) ==
    IF ~HasTag(cbs, tag)
    THEN [cbs |-> cbs, err |-> "ValueError"]
    ELSE [cbs |-> SelectSeq(cbs, LAMBDA e : e.tag # tag), err |-> "none"]

\* inputs of the registry operations
RawValues ==
    {[kind |-> "str", text |-> t] : t \in {"true", "False", "maybe", "info", "WARNING"}}
        \cup {[kind |-> "bool", text |-> "True"]}

LogTag == "sublime_util.log"

Tags == {LogTag, "other"}

Listeners == {"_on_log_lvl_change", "listener"}

\* the registry after Settings.__init__ and log.init: every setting holds its
\* default and log_level has the log module's listener
InitRegistry ==
    /\ buf = << >>
    /\ sel = <<Region(0, 0)>>
    /\ value = [n \in NameSet |-> Constructed(n)]
    /\ callbacks = [n \in NameSet |->
            IF n = "log_level"
            THEN AddOnChangeOutcome(<< >>, LogTag, "_on_log_lvl_change").cbs
            ELSE << >>]
    /\ cls = NoCls
    /\ nav = NoNav
    /\ reg = NoReg
    /\ ops = 0
    /\ modules = Loaded

Update(name, raw) ==
    LET out == UpdateOutcome(name, value[name], callbacks[name], raw)
    IN  /\ ops < MaxRegOps
        /\ value' = [value EXCEPT ![name] = out.value]
        /\ reg' = [op |-> "update", name |-> name, raw |-> raw, err |-> out.err,
                   fired |-> out.fired, old_value |-> value[name],
                   old_cbs |-> callbacks[name]]
        /\ ops' = ops + 1
        /\ UNCHANGED <<buf, sel, callbacks, cls, nav, modules>>

AddOnChange(name, tag, cb) ==
    LET out == AddOnChangeOutcome(callbacks[name], tag, cb)
    IN  /\ ops < MaxRegOps
        /\ callbacks' = [callbacks EXCEPT ![name] = out.cbs]
        /\ reg' = [op |-> "add_on_change", name |-> name, tag |-> tag, cb |-> cb,
                   err |-> out.err, fired |-> << >>, old_value |-> value[name],
                   old_cbs |-> callbacks[name]]
        /\ ops' = ops + 1
        /\ UNCHANGED <<buf, sel, value, cls, nav, modules>>

ClearOnChange(name, tag) ==
    LET out == ClearOnChangeOutcome(callbacks[name], tag)
    IN  /\ ops < MaxRegOps
        /\ callbacks' = [callbacks EXCEPT ![name] = out.cbs]
        /\ reg' = [op |-> "clear_on_change", name |-> name, tag |-> tag,
                   err |-> out.err, fired |-> << >>, old_value |-> value[name],
                   old_cbs |-> callbacks[name]]
        /\ ops' = ops + 1
        /\ UNCHANGED <<buf, sel, value, cls, nav, modules>>

UpdateAny == \E name \in NameSet, raw \in RawValues : Update(name, raw)

AddOnChangeAny ==
    \E name \in NameSet, tag \in Tags, cb \in Listeners : AddOnChange(name, tag, cb)

ClearOnChangeAny == \E name \in NameSet, tag \in Tags : ClearOnChange(name, tag)

NextRegistry == UpdateAny \/ AddOnChangeAny \/ ClearOnChangeAny

SpecRegistry == InitRegistry /\ [][NextRegistry]_vars

-----------------------------------------------------------------------------
(* Reload of the settings file (sublime_util/settings.py, lines 30-37).     *)
(*                                                                           *)
(* The store is the settings file at the time of the reload: for every       *)
(* setting either a raw value or Absent, for which self._settings_file[name] *)
(* raises KeyError.                                                          *)

Absent == [kind |-> "absent", text |-> ""]

\* the raw values a settings file can hold for a setting: JSON booleans and
\* strings, valid and not
StoreValues(name) ==
    IF name = "log_level"
    THEN {[kind |-> "str", text |-> "info"], [kind |-> "str", text |-> "WARNING"],
          [kind |-> "str", text |-> "maybe"], [kind |-> "bool", text |-> "True"]}
    ELSE {[kind |-> "bool", text |-> "True"], [kind |-> "bool", text |-> "False"],
          [kind |-> "str", text |-> "maybe"]}

Present(store) == {n \in NameSet : store[n] # Absent}

\* the stores holding a value for at most MaxStoreKeys settings
Stores ==
    UNION {{[n \in NameSet |-> IF n \in keys THEN held[n] ELSE Absent] :
                held \in {h \in [keys -> UNION {StoreValues(n) : n \in keys}] :
                            \A n \in keys : h[n] \in StoreValues(n)}} :
           keys \in {k \in SUBSET NameSet : Cardinality(k) <= MaxStoreKeys}}

\* the body of the loop with every exception caught, not KeyError alone
ReloadStep_CatchAll(name, val, cbs, store) ==
    IF store[name] = Absent
    THEN [value |-> val[name], err |-> "none", fired |-> << >>]
    ELSE LET out == UpdateOutcome(name, val[name], cbs[name], store[name])
         IN  [value |-> out.value, err |-> "none", fired |-> out.fired]

\* the body of the loop of _on_settings_change for one setting: KeyError of
\* the store is caught, what _update raises is not
ReloadStep(name, val, cbs, store) ==
    IF store[name] = Absent
    THEN [value |-> val[name], err |-> "none", fired |-> << >>]
    ELSE UpdateOutcome(name, val[name], cbs[name], store[name])

\* the loop of _on_settings_change from the i-th registered setting on: the
\* values afterwards, the exception that ended it, the setting it was raised
\* at and the listener calls made
RECURSIVE ReloadFrom(_, _, _, _, _)
ReloadFrom(i, val, cbs, store, fired) ==
    IF i > Len(SettingNames)
    THEN [value |-> val, err |-> "none", at |-> "none", fired |-> fired]
    ELSE LET name == SettingNames[i]
             out  == ReloadStep(name, val, cbs, store)
         IN  IF out.err # "none"
             THEN [value |-> [val EXCEPT ![name] = out.value], err |-> out.err,
                   at |-> name, fired |-> fired \o out.fired]
             ELSE ReloadFrom(i + 1, [val EXCEPT ![name] = out.value], cbs, store,
                             fired \o out.fired)

\* Settings._on_settings_change
ReloadOutcome(val, cbs, store) == ReloadFrom(1, val, cbs, store, << >>)

\* values a setting holds after construction and earlier reloads: both
\* booleans, and for log_level the default and the other level the stores of
\* the model hold
PriorValues(name) ==
    IF name = "log_level" THEN {Constructed("log_level"), "info"}
    ELSE {"True", "False"}

\* the registry as construction, log.init and any earlier reloads leave it:
\* every setting holds one of its prior values; log_level has the log module's
\* listener, and either no other listener is registered or every setting has
\* one more
InitReload ==
    /\ buf = << >>
    /\ sel = <<Region(0, 0)>>
    /\ value \in {[n \in NameSet |-> IF n = "log_level" THEN level ELSE flags[n]] :
                    level \in PriorValues("log_level"),
                    flags \in [NameSet \ {"log_level"} -> PriorValues("use_index")]}
    /\ \E more \in BOOLEAN :
          callbacks = [n \in NameSet |->
              LET own == IF n = "log_level"
                         THEN AddOnChangeOutcome(<< >>, LogTag, "_on_log_lvl_change").cbs
                         ELSE << >>
              IN  IF more THEN AddOnChangeOutcome(own, "other", "listener").cbs
                  ELSE own]
    /\ cls = NoCls
    /\ nav = NoNav
    /\ reg = NoReg
    /\ ops = 0
    /\ modules = Loaded

\* one reload of the settings file
Reload(store) ==
    LET out == ReloadOutcome(value, callbacks, store)
    IN  /\ value' = out.value
        /\ reg' = [op |-> "reload", store |-> store, err |-> out.err, at |-> out.at,
                   fired |-> out.fired, old_value |-> value]
        /\ ops' = ops + 1
        /\ UNCHANGED <<buf, sel, callbacks, cls, nav, modules>>

\* one reload is followed from every state it can start in
ReloadAny ==
    /\ reg = NoReg
    /\ \E store \in Stores : Reload(store)

SpecReload == InitReload /\ [][ReloadAny]_vars

-----------------------------------------------------------------------------
(* Activation and deactivation (sublime_util/log.py, python/settings.py).   *)
(*                                                                          *)
(* The settings file is taken to hold none of the settings, so a new        *)
(* Settings object holds the defaults.                                      *)

\* python/settings.py init: global settings, global initialized
settings_init(m) ==
    [m EXCEPT !.settings_obj = TRUE, !.settings_initialized = TRUE]

\* python/settings.py deinit: settings.deinit() clears the settings file's
\* listener; initialized = False binds a local name, there being no global
\* statement for it
settings_deinit(m) ==
    [m EXCEPT !.file_listener = FALSE]

\* for handler in package_logger.handlers: removeHandler(handler), the list
\* shrinking under the loop; with at most one handler none is left
RemoveHandlers(handlers) ==
    IF Cardinality(handlers) <= 1 THEN {} ELSE {CHOOSE h \in handlers : TRUE}

\* log.init: the modules, the settings' values and the listeners afterwards
LogInitOutcome(m) ==
    [modules   |-> [settings_init([m EXCEPT !.handlers = @ \cup {Handler},
                                           !.file_listener = TRUE])
                        EXCEPT !.log_initialized = TRUE],
     value     |-> [n \in NameSet |-> Constructed(n)],
     callbacks |-> [n \in NameSet |->
                        IF n = "log_level"
                        THEN AddOnChangeOutcome(<< >>, LogTag, "_on_log_lvl_change").cbs
                        ELSE << >>],
     err       |-> "none"]

\* log.deinit: the listener of log_level is cleared, settings.deinit() is
\* called and the handlers are removed; initialized = False binds a local
\* name, there being no global statement for it
LogDeinitOutcome(m, val, cbs) ==
    IF ~m.settings_obj
    THEN [modules |-> m, value |-> val, callbacks |-> cbs, err |-> "AttributeError"]
    ELSE LET cleared == ClearOnChangeOutcome(cbs["log_level"], LogTag)
         IN  IF cleared.err # "none"
             THEN [modules |-> m, value |-> val, callbacks |-> cbs, err |-> cleared.err]
             ELSE [modules   |-> [settings_deinit(m) EXCEPT
                                    !.handlers = RemoveHandlers(@)],
                   value     |-> val,
                   callbacks |-> [cbs EXCEPT !["log_level"] = cleared.cbs],
                   err       |-> "none"]

\* log.reinit: deinit if initialized, then init
LogReinitOutcome(m, val, cbs) ==
    IF m.log_initialized
    THEN LET d == LogDeinitOutcome(m, val, cbs)
         IN  IF d.err # "none" THEN d ELSE LogInitOutcome(d.modules)
    ELSE LogInitOutcome(m)

\* a call is made and recorded with the calls made before it
Lifecycle(call, out) ==
    /\ ops < MaxLifeCalls
    /\ modules' = out.modules
    /\ value' = out.value
    /\ callbacks' = out.callbacks
    /\ reg' = [op |-> call, err |-> out.err, calls |-> Append(reg.calls, call)]
    /\ ops' = ops + 1
    /\ UNCHANGED <<buf, sel, cls, nav>>

log_init == Lifecycle("init", LogInitOutcome(modules))

log_deinit == Lifecycle("deinit", LogDeinitOutcome(modules, value, callbacks))

log_reinit == Lifecycle("reinit", LogReinitOutcome(modules, value, callbacks))

InitLifecycle ==
    /\ buf = << >>
    /\ sel = <<Region(0, 0)>>
    /\ value = [n \in NameSet |-> None]
    /\ callbacks = [n \in NameSet |-> << >>]
    /\ cls = NoCls
    /\ nav = NoNav
    /\ reg = [op |-> "none", err |-> "none", calls |-> << >>]
    /\ ops = 0
    /\ modules = Imported

NextLifecycle == log_init \/ log_deinit \/ log_reinit

SpecLifecycle == InitLifecycle /\ [][NextLifecycle]_vars

-----------------------------------------------------------------------------
(* Integer-range setting (sublime_util/validators.py, settings.py).         *)

Ints == (0 - MaxInt)..MaxInt

\* IntegerRangeValidator.__init__(self, min, max): the body reads the names
\* minimum and maximum, which are not defined anywhere
IntegerRangeValidatorInit(min, max) ==
    [err |-> "NameError", made |-> FALSE]

\* IntegerRangeValidator.validate on a validator holding _min and _max
IntegerRangeValidate(lo, hi, v) ==
    IF v >= lo /\ v <= hi THEN [none |-> FALSE, int |-> v] ELSE [none |-> TRUE]

\* IntegerRangeSetting.__init__: the validator is constructed in the argument
\* list of super().__init__
IntegerRangeSettingInit(v, minimum, maximum) ==
    LET validator == IntegerRangeValidatorInit(minimum, maximum)
    IN  [op |-> "integer_range", value |-> v, minimum |-> minimum,
         maximum |-> maximum, err |-> validator.err, made |-> validator.made]

InitRange ==
    /\ buf = << >>
    /\ sel = <<Region(0, 0)>>
    /\ value = [n \in NameSet |-> Constructed(n)]
    /\ callbacks = [n \in NameSet |-> << >>]
    /\ cls = NoCls
    /\ nav = NoNav
    /\ reg = NoReg
    /\ ops = 0
    /\ modules = Loaded

ConstructIntegerRange ==
    /\ reg = NoReg
    /\ \E v \in Ints, minimum \in Ints, maximum \in Ints :
            reg' = IntegerRangeSettingInit(v, minimum, maximum)
    /\ UNCHANGED <<buf, sel, value, callbacks, cls, nav, ops, modules>>

SpecRange == InitRange /\ [][ConstructIntegerRange]_vars

-----------------------------------------------------------------------------
(* Navigation policy (word_navigate.py, selection.py).                      *)

\* SingleSetting.__bool__ of a boolean setting
Setting(name) == value[name] = "True"

\* the test for several regions off by one
is_multiple_regions_selected_OffByOne == Len(sel) > 2

\* selection.is_multiple_regions_selected
is_multiple_regions_selected == Len(sel) > 1

\* selection.get_caret_point, for a single selected region
get_caret_point == sel[1].b

\* index.get_index(_id): the index is not implemented and the call raises;
\* the caller catches KeyError
GetIndexRaises == "KeyError"

\* the number of classifier calls the if/elif chain makes for a shape
ClassifierCalls(shape) ==
    CASE shape = "no_word"        -> 1
      [] shape = "single_word"    -> 2
      [] shape = "multiple_words" -> 3
      [] OTHER                    -> 4

\* a region returned directly, without a search
Direct(shape, region) ==
    [dest |-> region, pivot |-> NoRegion, searches |-> 0, warnings |-> 0,
     classified |-> ClassifierCalls(shape), shape |-> shape, err |-> "none"]

\* the lookup without the except clause around index.get_index
SearchWith_Uncaught(use_index, shape, word_region, forward) ==
    IF use_index
    THEN [dest |-> NoRegion, pivot |-> word_region, searches |-> 0,
          warnings |-> 0, classified |-> ClassifierCalls(shape),
          shape |-> shape, err |-> GetIndexRaises]
    ELSE [dest |-> get_region_of_closet_same_word(buf, word_region, forward,
                        Setting("wrap_buffer"), Setting("case_sensitive")),
          pivot |-> word_region, searches |-> 1, warnings |-> 0,
          classified |-> ClassifierCalls(shape), shape |-> shape,
          err |-> "none"]

\* lines 102-118 for a given value of settings.use_index: the index is tried
\* when use_index is set, then the pivot is handed to the same-word search
SearchWith(use_index, shape, word_region, forward) ==
    LET failed == use_index /\ GetIndexRaises = "KeyError"
        raised == use_index /\ GetIndexRaises # "KeyError"
    IN  IF raised
        THEN [dest |-> NoRegion, pivot |-> word_region, searches |-> 0,
              warnings |-> 0, classified |-> ClassifierCalls(shape),
              shape |-> shape, err |-> GetIndexRaises]
        ELSE [dest |-> get_region_of_closet_same_word(buf, word_region, forward,
                            Setting("wrap_buffer"), Setting("case_sensitive")),
              pivot |-> word_region, searches |-> 1,
              warnings |-> IF failed THEN 1 ELSE 0,
              classified |-> ClassifierCalls(shape), shape |-> shape,
              err |-> "none"]

\* lines 102-118 with the current value of settings.use_index
Search(shape, word_region, forward) ==
    SearchWith(Setting("use_index"), shape, word_region, forward)

\* the no-word branch handing the adjacent word to the same-word search
NoWordBranch_Search(shape, forward) ==
    Search(shape,
           IF forward
           THEN get_next_word_region_from_pt(buf, get_caret_point, FALSE)
           ELSE get_previous_word_region_from_pt(buf, get_caret_point, FALSE),
           forward)

\* lines 42-48: no word is selected, the adjacent word is returned
NoWordBranch(shape, forward) ==
    Direct(shape,
           IF forward
           THEN get_next_word_region_from_pt(buf, get_caret_point, FALSE)
           ELSE get_previous_word_region_from_pt(buf, get_caret_point, FALSE))

\* the part-of-single-word branch searching for the selected span itself
PartOfSingleBranch_SpanPivot(shape, region, forward) ==
    IF Setting("expand_first")
    THEN Direct(shape, Word(buf, region))
    ELSE Search(shape, region, forward)

\* lines 92-100: part of a single word is selected; the word is returned when
\* expand_first is set and is the pivot of the search otherwise
PartOfSingleBranch(shape, region, forward) ==
    IF Setting("expand_first")
    THEN Direct(shape, Word(buf, region))
    ELSE Search(shape, Word(buf, region), forward)

_get_region_of_word_closest_to_region(region, forward) ==
    LET shape == Shape(buf, region)
        caret_pt == get_caret_point
    IN  CASE shape = "no_word" -> NoWordBranch(shape, forward)
          [] shape = "single_word" -> Search(shape, region, forward)
          [] shape = "multiple_words" ->
                IF ~Setting("allow_multiple_words")
                THEN IF Setting("expand_first")
                     THEN Direct(shape, get_closest_word_region_from_pt(buf, caret_pt, FALSE))
                     ELSE Search(shape,
                            get_closest_word_region_from_pt(buf, caret_pt, FALSE), forward)
                ELSE Search(shape, region, forward)
          [] shape = "part_of_multiple" ->
                IF ~Setting("allow_multiple_words")
                THEN IF Setting("expand_first")
                     THEN Direct(shape, get_closest_word_region_from_pt(buf, caret_pt, FALSE))
                     ELSE Search(shape,
                            get_closest_word_region_from_pt(buf, caret_pt, FALSE), forward)
                ELSE IF Setting("expand_first")
                     THEN Direct(shape, Word(buf, region))
                     ELSE Search(shape, region, forward)
          [] OTHER -> PartOfSingleBranch(shape, region, forward)

\* the outcome of a command that found several regions selected
MultipleRegions ==
    [dest |-> NoRegion, pivot |-> NoRegion, searches |-> 0, warnings |-> 1,
     classified |-> 0, shape |-> "none", err |-> "none"]

_get_region_of_word_closest_to_selection(forward) ==
    IF is_multiple_regions_selected THEN MultipleRegions
    ELSE _get_region_of_word_closest_to_region(sel[1], forward)

\* view_util.is_single_word is not defined in view.py: evaluating the elif
\* raises AttributeError
_get_region_of_closest_word_in_line(forward) ==
    IF is_multiple_regions_selected THEN MultipleRegions
    ELSE IF is_not_part_of_any_word(buf, sel[1])
    THEN LET found == get_region_of_closest_word_in_line(
                            buf, get_caret_point, forward, Setting("wrap_line"))
         IN  [dest |-> found.region, pivot |-> NoRegion, searches |-> found.searches,
              warnings |-> 0, classified |-> 1, shape |-> "no_word", err |-> "none"]
    ELSE [dest |-> NoRegion, pivot |-> NoRegion, searches |-> 0, warnings |-> 0,
          classified |-> 1, shape |-> "not_no_word", err |-> "AttributeError"]

\* select_and_zoom_to_region without the sel.clear()
select_and_zoom_to_region_NoClear(region) ==
    IF region \in {sel[i] : i \in 1..Len(sel)} THEN sel ELSE Append(sel, region)

\* selection.select_and_zoom_to_region: sel.clear(); sel.add(region)
select_and_zoom_to_region(region) == <<region>>

\* _navigate and _navigate_in_line: the region is selected if there is one
Apply(cmd, forward, out) ==
    /\ sel' = IF out.dest # NoRegion THEN select_and_zoom_to_region(out.dest) ELSE sel
    /\ nav' = [cmd |-> cmd, forward |-> forward, pre_sel |-> sel, dest |-> out.dest,
               pivot |-> out.pivot, searches |-> out.searches,
               warnings |-> out.warnings, classified |-> out.classified,
               shape |-> out.shape, err |-> out.err]
    /\ UNCHANGED <<buf, value, callbacks, cls, reg, ops, modules>>

navigate_forward ==
    Apply("same_word", TRUE, _get_region_of_word_closest_to_selection(TRUE))

navigate_backward ==
    Apply("same_word", FALSE, _get_region_of_word_closest_to_selection(FALSE))

navigate_forward_in_line ==
    Apply("in_line", TRUE, _get_region_of_closest_word_in_line(TRUE))

navigate_backward_in_line ==
    Apply("in_line", FALSE, _get_region_of_closest_word_in_line(FALSE))

\* inputs of the navigation commands
Flagpole ==
    <<"f", "l", "a", "g", "p", "o", "l", "e", " ", "b", "a", "n", "a", "n", "a", " ",
      "f", "l", "a", "g", "p", "o", "l", "e">>

FooBar == <<"f", "o", "o", " ", "b", "a", "r">>

NavAlphabet == {"a", "A", " "}

RECURSIVE NavBuffersOfLen(_)
NavBuffersOfLen(n) ==
    IF n = 0 THEN {<<>>}
    ELSE {Append(s, c) : s \in NavBuffersOfLen(n - 1), c \in NavAlphabet}

NavBuffers ==
    {Flagpole, FooBar,
     <<"a", ".", "a", " ", "a", "b", "a">>,
     <<"a", " ", "b", "\n", "a", " ", " ", "a">>,
     <<" ", "\n", "a", "\n">>,
     <<"a", " ", "A", " ", "a">>}
        \cup UNION {NavBuffersOfLen(n) : n \in 0..MaxNavLen}

\* one caret, one region of at most MaxSelLen characters, or two carets
NavSelections(text) ==
    {<<Region(p, p)>> : p \in 0..Len(text)}
        \cup {<<r>> : r \in {x \in RegionsOf(text) :
                                /\ Len(text) <= MaxRegionBuf
                                /\ End(x) - Begin(x) <= MaxSelLen}}
        \cup {<<Region(p, p), Region(p + 1, p + 1)>> : p \in 0..(Len(text) - 1)}

\* the settings read by the same-word commands and by the in-line commands
SameWordSettings ==
    {"use_index", "allow_multiple_words", "expand_first", "wrap_buffer", "case_sensitive"}

InLineSettings == {"wrap_line", "expand_first"}

SettingsWith(on) ==
    [n \in NameSet |-> IF n = "log_level" THEN Constructed(n)
                       ELSE IF n \in on THEN "True" ELSE "False"]

\* every combination of the settings a command reads, the other settings
\* being as constructed
NavSettings ==
    {SettingsWith(on \cup {n \in NameSet \ SameWordSettings : Constructed(n) = "True"}) :
        on \in SUBSET SameWordSettings}
    \cup
    {SettingsWith(on \cup {n \in NameSet \ InLineSettings : Constructed(n) = "True"}) :
        on \in SUBSET InLineSettings}

InitNav ==
    /\ buf \in NavBuffers
    /\ sel \in NavSelections(buf)
    /\ value \in NavSettings
    /\ callbacks = [n \in NameSet |-> << >>]
    /\ cls = NoCls
    /\ nav = NoNav
    /\ reg = NoReg
    /\ ops = 0
    /\ modules = Loaded

NextNav ==
    \/ navigate_forward
    \/ navigate_backward
    \/ navigate_forward_in_line
    \/ navigate_backward_in_line

SpecNav == InitNav /\ [][NextNav]_vars

-----------------------------------------------------------------------------
(* The classifier as a state machine: a buffer and a region are chosen, and  *)
(* the classifier is evaluated on them.                                      *)

InitClassify ==
    /\ buf \in AllBuffers
    /\ \E r \in RegionsOf(buf) : sel = <<r>>
    /\ value = [n \in NameSet |-> Constructed(n)]
    /\ callbacks = [n \in NameSet |-> << >>]
    /\ cls = NoCls
    /\ nav = NoNav
    /\ reg = NoReg
    /\ ops = 0
    /\ modules = Loaded

Classify ==
    /\ ~cls.done
    /\ cls' = Classification(buf, sel[1])
    /\ UNCHANGED <<buf, sel, value, callbacks, nav, reg, ops, modules>>

SpecClassify == InitClassify /\ [][Classify]_vars

-----------------------------------------------------------------------------
(* The word locator as a state machine: a buffer and a point are chosen, and *)
(* the three locators are evaluated at the point.                            *)

InitLocate ==
    /\ buf \in AllBuffers
    /\ \E pt \in 0..Len(buf) : sel = <<Region(pt, pt)>>
    /\ value = [n \in NameSet |-> Constructed(n)]
    /\ callbacks = [n \in NameSet |-> << >>]
    /\ cls = NoCls
    /\ nav = NoNav
    /\ reg = NoReg
    /\ ops = 0
    /\ modules = Loaded

Locate(in_line) ==
    /\ ~cls.done
    /\ cls' = [done     |-> TRUE,
               pt       |-> sel[1].b,
               in_line  |-> in_line,
               next     |-> get_next_word_region_from_pt(buf, sel[1].b, in_line),
               previous |-> get_previous_word_region_from_pt(buf, sel[1].b, in_line),
               closest  |-> get_closest_word_region_from_pt(buf, sel[1].b, in_line)]
    /\ UNCHANGED <<buf, sel, value, callbacks, nav, reg, ops, modules>>

LocateAny == \E in_line \in BOOLEAN : Locate(in_line)

SpecLocate == InitLocate /\ [][LocateAny]_vars

-----------------------------------------------------------------------------
(* Claims.                                                                  *)

Bit(x) == IF x THEN 1 ELSE 0

\* the partial-word-selection category: is_part_of_multiple_words, or the
\* part-of-single-word fallback that is taken when no predicate holds
PartialCategory ==
    \/ cls.part_multi
    \/ ~(cls.no_word \/ cls.single \/ cls.multiple \/ cls.part_multi)

\* C1: for every buffer and every region (empty, reversed, at either end of
\* the buffer) exactly one of the four word-shape categories holds: no-word,
\* single-complete-word, multiple-complete-words, partial-word-selection.
C1_ExactlyOneCategory ==
    cls.done =>
        Bit(cls.no_word) + Bit(cls.single) + Bit(cls.multiple)
            + Bit(PartialCategory) = 1

\* the validator's answer to the raw value of the last update
LastAnswer == Validate(reg.name, reg.raw)

\* the raw value of the last update differs from the value the setting held,
\* both turned into lower-case strings
LastDiffers == StrLower(reg.raw.text) # StrLower(reg.old_value)

\* C2: an update with a raw value the setting's validator rejects fails with
\* a ValueError, leaves the stored value unchanged and invokes no listener.
C2_InvalidUpdateRejected ==
    (reg.op = "update" /\ LastAnswer = None) =>
        /\ reg.err = "ValueError"
        /\ value[reg.name] = reg.old_value
        /\ reg.fired = << >>

\* an invalid value was handed to a setting that has a listener
C2_Witness ==
    /\ reg.op = "update"
    /\ LastAnswer = None
    /\ reg.old_cbs # << >>
    /\ reg.err = "ValueError"

\* C3: a valid update that differs from the current value (lower-cased string
\* comparison) stores the validator's value and invokes every registered
\* listener exactly once with (name, old, new); an update that is equal under
\* that comparison changes nothing and invokes no listener.
C3_ListenersFiredOncePerChange ==
    reg.op = "update" =>
        /\ (LastDiffers /\ LastAnswer \notin {None, "AttributeError"}) =>
              /\ reg.err = "none"
              /\ value[reg.name] = LastAnswer
              /\ Len(reg.fired) = Len(reg.old_cbs)
              /\ \A i \in 1..Len(reg.old_cbs) :
                    /\ Cardinality({j \in 1..Len(reg.fired) :
                            reg.fired[j].tag = reg.old_cbs[i].tag}) = 1
                    /\ reg.fired[i] = [tag  |-> reg.old_cbs[i].tag,
                                       cb   |-> reg.old_cbs[i].cb,
                                       name |-> reg.name,
                                       old  |-> reg.old_value,
                                       new  |-> value[reg.name]]
        /\ ~LastDiffers =>
              /\ reg.err = "none"
              /\ value[reg.name] = reg.old_value
              /\ reg.fired = << >>

\* a changing update on a setting with two listeners
C3_Witness ==
    /\ reg.op = "update"
    /\ LastDiffers
    /\ Len(reg.fired) = 2
    /\ value[reg.name] # reg.old_value

\* C4: there is at most one listener per tag; registering a registered tag
\* fails and leaves the registrations unchanged, and so does unregistering a
\* tag that is not registered.
C4_OneListenerPerTag ==
    /\ \A n \in NameSet : \A i, j \in 1..Len(callbacks[n]) :
            callbacks[n][i].tag = callbacks[n][j].tag => i = j
    /\ (reg.op = "add_on_change" /\ HasTag(reg.old_cbs, reg.tag)) =>
            reg.err = "ValueError" /\ callbacks[reg.name] = reg.old_cbs
    /\ (reg.op = "clear_on_change" /\ ~HasTag(reg.old_cbs, reg.tag)) =>
            reg.err = "ValueError" /\ callbacks[reg.name] = reg.old_cbs

\* a registered tag was registered again with another listener
C4_Witness ==
    /\ reg.op = "add_on_change"
    /\ \E i \in 1..Len(reg.old_cbs) :
            reg.old_cbs[i].tag = reg.tag /\ reg.old_cbs[i].cb # reg.cb
    /\ reg.err = "ValueError"

\* the caret of the single region selected before the last command
Caret == nav.pre_sel[1].b

\* the text t stands as a whole word at offset i of the buffer
WholeWordAt(i, t, case_sensitive) ==
    /\ IsWordStart(buf, i)
    /\ FindByClass(buf, i, TRUE, {"WE"}) = i + Len(t)
    /\ \A k \in 1..Len(t) :
          IF case_sensitive THEN buf[i + k] = t[k] ELSE Lower(buf[i + k]) = Lower(t[k])

\* the offsets at which the text of region r stands as a whole word
Occurrences(r) ==
    {i \in 0..Len(buf) : WholeWordAt(i, Substr(buf, r), Setting("case_sensitive"))}

Least(S) == CHOOSE x \in S : \A y \in S : x <= y

\* C5: with more than one region selected each of the four commands leaves
\* the selection unchanged, classifies nothing, searches nothing and logs
\* exactly one warning.
C5_MultipleRegionsNoOp ==
    (nav.cmd # "none" /\ Len(nav.pre_sel) > 1) =>
        /\ sel = nav.pre_sel
        /\ nav.classified = 0
        /\ nav.searches = 0
        /\ nav.warnings = 1
        /\ nav.err = "none"

\* a backward in-line command was run on two carets
C5_Witness ==
    /\ nav.cmd = "in_line"
    /\ ~nav.forward
    /\ Len(nav.pre_sel) = 2
    /\ nav.warnings = 1

\* C6: for a command on a single selected region, a destination becomes the
\* one selected region, and without a destination the selection is the one
\* before the command.
C6_SelectionFrame ==
    (nav.cmd # "none" /\ Len(nav.pre_sel) = 1) =>
        /\ nav.dest # NoRegion => sel = <<nav.dest>>
        /\ nav.dest = NoRegion => sel = nav.pre_sel

\* a same-word search moved the selection
C6_Witness ==
    /\ nav.cmd = "same_word"
    /\ Len(nav.pre_sel) = 1
    /\ nav.searches = 1
    /\ nav.dest # NoRegion
    /\ sel # nav.pre_sel

\* the word the directional locator returns for the caret
DirectionalWord ==
    IF nav.forward THEN get_next_word_region_from_pt(buf, Caret, FALSE)
    ELSE get_previous_word_region_from_pt(buf, Caret, FALSE)

\* C7 as stated: in a same-word jump on a no-word selection the destination
\* is the next occurrence of the directional pivot found by the same-word
\* search, not the pivot itself.
C7_DestinationIsNextOccurrence ==
    (nav.cmd = "same_word" /\ nav.shape = "no_word") =>
        /\ nav.searches = 1
        /\ nav.dest = get_region_of_closet_same_word(buf, DirectionalWord, nav.forward,
                            Setting("wrap_buffer"), Setting("case_sensitive"))

\* the caret has no word character on either side
CaretInGap == ~WordLeft(buf, Caret) /\ ~WordRight(buf, Caret)

\* C7 amended: in a same-word jump on a no-word selection no same-word search
\* is made; the destination is the region the directional locator returns for
\* the caret, and for a caret inside a run of non-word characters it is the
\* whole word that follows (forward) or precedes (backward), if there is one.
C7_DestinationIsAdjacentWord ==
    (nav.cmd = "same_word" /\ nav.shape = "no_word") =>
        /\ nav.searches = 0
        /\ nav.dest = DirectionalWord
        /\ sel = <<nav.dest>>
        /\ (CaretInGap /\ nav.forward
                /\ \E s \in Caret..Len(buf) : IsWordStart(buf, s)) =>
              /\ Begin(nav.dest) = Least({s \in Caret..Len(buf) : IsWordStart(buf, s)})
              /\ is_single_complete_word(buf, nav.dest)
        /\ (CaretInGap /\ ~nav.forward
                /\ \E e \in 0..Caret : IsWordEnd(buf, e)) =>
              /\ \A e \in 0..Caret : IsWordEnd(buf, e) => e <= End(nav.dest)
              /\ IsWordEnd(buf, End(nav.dest))
              /\ End(nav.dest) <= Caret
              /\ is_single_complete_word(buf, nav.dest)

\* a forward jump from a caret inside a run of non-word characters selected
\* the word that follows it
C7_Witness ==
    /\ nav.cmd = "same_word"
    /\ nav.shape = "no_word"
    /\ nav.forward
    /\ CaretInGap
    /\ ~Empty(nav.dest)
    /\ Begin(nav.dest) > Caret
    /\ sel = <<nav.dest>>

\* the caret was inside the first "flagpole", matching ignores case and the
\* buffer is not wrapped
FlagpoleScenario ==
    /\ buf = Flagpole
    /\ nav.cmd = "same_word"
    /\ nav.forward
    /\ Len(nav.pre_sel) = 1
    /\ Empty(nav.pre_sel[1])
    /\ Caret \in 1..7
    /\ ~Setting("case_sensitive")
    /\ ~Setting("wrap_buffer")

\* C8 as stated: in the flagpole scenario one forward jump selects offsets
\* 17-25.
C8_SelectsOffsets17To25 == FlagpoleScenario => sel = <<Region(17, 25)>>

\* a forward jump from an empty selection strictly inside a word
CaretInsideWord ==
    /\ nav.cmd = "same_word"
    /\ nav.forward
    /\ Len(nav.pre_sel) = 1
    /\ Empty(nav.pre_sel[1])
    /\ WordLeft(buf, Caret)
    /\ WordRight(buf, Caret)

\* the word around the caret
WordAtCaret ==
    Region(FindByClass(buf, Caret, FALSE, {"WS"}), FindByClass(buf, Caret, TRUE, {"WE"}))

\* C8 amended: in the flagpole scenario a forward jump selects the second
\* "flagpole", offsets 16-24, when expand_first is off, and the word under the
\* caret, offsets 0-8, when it is on; in general, with expand_first off, a
\* forward jump from a caret inside a word selects the nearest whole-word
\* occurrence of that word after it, if there is one.
C8_SelectsNextOccurrence ==
    /\ (FlagpoleScenario /\ ~Setting("expand_first")) => sel = <<Region(16, 24)>>
    /\ (FlagpoleScenario /\ Setting("expand_first")) =>
            sel = <<Region(0, 8)>> /\ nav.searches = 0
    /\ (CaretInsideWord /\ ~Setting("expand_first")) =>
            LET later == {i \in Occurrences(WordAtCaret) : i >= End(WordAtCaret)}
            IN  later # {} =>
                    sel = <<Region(Least(later), Least(later) + Len(Substr(buf, WordAtCaret)))>>

\* the jump of the scenario was made with expand_first off
C8_Witness ==
    /\ FlagpoleScenario
    /\ Caret = 3
    /\ ~Setting("expand_first")
    /\ sel = <<Region(16, 24)>>

\* C9: in "foo bar" with the caret between the two words, on either side of
\* the space, and expand_first on, a forward same-word jump selects exactly
\* "bar" and makes no same-word search.
C9_CaretOnSpaceSelectsBar ==
    (/\ buf = FooBar
     /\ nav.cmd = "same_word"
     /\ nav.forward
     /\ nav.pre_sel \in {<<Region(3, 3)>>, <<Region(4, 4)>>}
     /\ Setting("expand_first")) =>
        sel = <<Region(4, 7)>> /\ nav.searches = 0

\* a forward same-word search from a single complete word that has no later
\* occurrence
LastOccurrenceSearch ==
    /\ nav.cmd = "same_word"
    /\ nav.forward
    /\ nav.searches = 1
    /\ is_single_complete_word(buf, nav.pivot)
    /\ \A i \in Occurrences(nav.pivot) : i <= Begin(nav.pivot)

\* C10: a forward same-word search from the last occurrence of a word returns
\* the first occurrence of the word in the buffer when wrap_buffer is on, and
\* none when it is off.
C10_WrapReturnsFirstOccurrence ==
    LastOccurrenceSearch =>
        IF Setting("wrap_buffer")
        THEN /\ Occurrences(nav.pivot) # {}
             /\ nav.dest = Region(Least(Occurrences(nav.pivot)),
                                  Least(Occurrences(nav.pivot)) + End(nav.pivot)
                                        - Begin(nav.pivot))
        ELSE nav.dest = NoRegion /\ sel = nav.pre_sel

\* the search wrapped from the last occurrence to an earlier one
C10_Witness ==
    /\ LastOccurrenceSearch
    /\ Setting("wrap_buffer")
    /\ nav.dest # NoRegion
    /\ End(nav.dest) <= Begin(nav.pivot)

\* the texts of two regions are equal, letter case counting only when
\* case_sensitive is on
SameText(r1, r2) ==
    LET t1 == Substr(buf, r1)
        t2 == Substr(buf, r2)
    IN  /\ Len(t1) = Len(t2)
        /\ \A k \in 1..Len(t1) :
              IF Setting("case_sensitive") THEN t1[k] = t2[k]
              ELSE Lower(t1[k]) = Lower(t2[k])

\* C11: a region returned by the same-word search has exactly the pivot's
\* literal text (ignoring case when case_sensitive is off), for pivots of one
\* or several words and pivots containing punctuation such as ".", and it is
\* delimited by word boundaries on both ends.
C11_ResultHasPivotText ==
    (nav.cmd = "same_word" /\ nav.searches = 1 /\ nav.dest # NoRegion) =>
        /\ SameText(nav.dest, nav.pivot)
        /\ IsBoundary(buf, Begin(nav.dest))
        /\ IsBoundary(buf, End(nav.dest))

\* the single region selected before the last command
PreSel == nav.pre_sel[1]

\* the last command was a same-word jump on a selection of the given shapes
SameWordOn(shapes) ==
    /\ nav.cmd = "same_word"
    /\ Len(nav.pre_sel) = 1
    /\ nav.shape \in shapes

\* the pivot of a search made by the last command
SearchedFor(pivot) == nav.searches = 1 /\ nav.pivot = pivot

\* a region returned by the last command without a search
Returned(region) == nav.searches = 0 /\ nav.dest = region /\ sel = <<region>>

\* the word the nearest-word locator returns for the caret
ClosestWord == get_closest_word_region_from_pt(buf, Caret, FALSE)

\* C12 as stated: for a selection of several complete words or a partial
\* selection, allow_multiple_words on makes the whole selected span the search
\* pivot; off with expand_first on returns the single word under the caret
\* without a search; off with expand_first off makes the single word nearest
\* the caret the pivot; and a partial selection with expand_first on is
\* expanded to word boundaries without a search.
C12_SettingsTable ==
    /\ (SameWordOn({"multiple_words"}) /\ Setting("allow_multiple_words")) =>
            SearchedFor(PreSel)
    /\ (/\ SameWordOn({"part_of_multiple", "part_of_single"})
        /\ Setting("allow_multiple_words") /\ ~Setting("expand_first")) =>
            SearchedFor(PreSel)
    /\ (/\ SameWordOn({"multiple_words"})
        /\ ~Setting("allow_multiple_words") /\ Setting("expand_first")) =>
            Returned(ClosestWord)
    /\ (/\ SameWordOn({"multiple_words", "part_of_multiple", "part_of_single"})
        /\ ~Setting("allow_multiple_words") /\ ~Setting("expand_first")) =>
            SearchedFor(ClosestWord)
    /\ (/\ SameWordOn({"part_of_multiple", "part_of_single"})
        /\ Setting("expand_first")) =>
            Returned(Word(buf, PreSel)) \/ Returned(ClosestWord)

\* C12 amended: the table holds for a selection of several complete words and
\* for a partial selection reaching into more than one word, where
\* allow_multiple_words on with expand_first on expands the partial selection
\* to word boundaries without a search; for a partial selection within a
\* single word allow_multiple_words is not read: expand_first on returns the
\* selection expanded to word boundaries without a search, expand_first off
\* makes that expanded region the search pivot.
C12_SettingsTableByShape ==
    /\ (SameWordOn({"multiple_words"}) /\ Setting("allow_multiple_words")) =>
            SearchedFor(PreSel)
    /\ (/\ SameWordOn({"part_of_multiple"})
        /\ Setting("allow_multiple_words") /\ ~Setting("expand_first")) =>
            SearchedFor(PreSel)
    /\ (/\ SameWordOn({"part_of_multiple"})
        /\ Setting("allow_multiple_words") /\ Setting("expand_first")) =>
            Returned(Word(buf, PreSel))
    /\ (/\ SameWordOn({"multiple_words", "part_of_multiple"})
        /\ ~Setting("allow_multiple_words") /\ Setting("expand_first")) =>
            Returned(ClosestWord)
    /\ (/\ SameWordOn({"multiple_words", "part_of_multiple"})
        /\ ~Setting("allow_multiple_words") /\ ~Setting("expand_first")) =>
            SearchedFor(ClosestWord)
    /\ (SameWordOn({"part_of_single"}) /\ Setting("expand_first")) =>
            Returned(Word(buf, PreSel))
    /\ (SameWordOn({"part_of_single"}) /\ ~Setting("expand_first")) =>
            SearchedFor(Word(buf, PreSel))

\* part of a single word was selected with allow_multiple_words on and
\* expand_first off, and the search was made for the whole word
C12_Witness ==
    /\ SameWordOn({"part_of_single"})
    /\ Setting("allow_multiple_words")
    /\ ~Setting("expand_first")
    /\ ~Empty(PreSel)
    /\ nav.searches = 1
    /\ nav.pivot # PreSel
    /\ is_single_complete_word(buf, nav.pivot)

\* the row of an offset of the buffer
Row(pt) == RowCol(buf, pt).row

\* C13: for a single selected region, either direction and wrap_line on or
\* off, the destination of a jump-to-word-in-line command lies entirely
\* within the line of the caret; a wrapped search stays on that line.
C13_DestinationInCaretLine ==
    (nav.cmd = "in_line" /\ Len(nav.pre_sel) = 1 /\ nav.dest # NoRegion) =>
        /\ Row(Begin(nav.dest)) = Row(Caret)
        /\ Row(End(nav.dest)) = Row(Caret)
        /\ \A i \in (Begin(nav.dest) + 1)..End(nav.dest) : buf[i] # "\n"
        /\ sel = <<nav.dest>>

\* a forward search wrapped on the first line of a buffer whose second line
\* has words too
C13_Witness ==
    /\ nav.cmd = "in_line"
    /\ nav.forward
    /\ Setting("wrap_line")
    /\ nav.searches = 2
    /\ nav.dest # NoRegion
    /\ Row(Caret) = 0
    /\ \E p \in 0..Len(buf) : Row(p) = 1 /\ IsWordStart(buf, p)

\* C14: each of the four commands, on every single selected region of every
\* shape and under every combination of settings, either applies a
\* destination or leaves the selection unchanged; none ends in an exception.
C14_NoCommandRaises ==
    (nav.cmd # "none" /\ Len(nav.pre_sel) = 1) =>
        /\ nav.err = "none"
        /\ nav.dest # NoRegion => sel = <<nav.dest>>
        /\ nav.dest = NoRegion => sel = nav.pre_sel

\* the lookup of the last command made again with use_index on or off
LookupAgain(use_index) ==
    SearchWith(use_index, nav.shape, nav.pivot, nav.forward)

\* C15: use_index does not influence navigation: a same-word jump that
\* reaches the lookup returns the same destination (or none) with use_index on
\* as with use_index off, everything else being equal, and that destination
\* is the result of the direct same-word search.
C15_UseIndexHasNoInfluence ==
    (nav.cmd = "same_word" /\ nav.pivot # NoRegion) =>
        /\ nav.err = "none"
        /\ nav.searches = 1
        /\ nav.dest = get_region_of_closet_same_word(buf, nav.pivot, nav.forward,
                            Setting("wrap_buffer"), Setting("case_sensitive"))
        /\ \A u \in BOOLEAN :
              /\ LookupAgain(u).dest = nav.dest
              /\ LookupAgain(u).err = "none"
        /\ nav.dest # NoRegion => sel = <<nav.dest>>
        /\ nav.dest = NoRegion => sel = nav.pre_sel

\* a same-word jump with use_index on moved the selection by a search after
\* the index lookup had failed
C15_Witness ==
    /\ Setting("use_index")
    /\ nav.cmd = "same_word"
    /\ nav.searches = 1
    /\ nav.warnings = 1
    /\ nav.dest # NoRegion
    /\ sel = <<nav.dest>>
    /\ sel # nav.pre_sel

\* C16: constructing an integer-range validator with bounds (min, max), and
\* the IntegerRangeSetting that uses it, succeeds, and the validator returns
\* v unchanged for min <= v <= max and None for every v outside the bounds.
C16_RangeValidatorWorks ==
    reg.op = "integer_range" =>
        /\ reg.err = "none"
        /\ reg.made
        /\ \A v \in Ints :
              IntegerRangeValidate(reg.minimum, reg.maximum, v) =
                  IF reg.minimum <= v /\ v <= reg.maximum
                  THEN [none |-> FALSE, int |-> v] ELSE [none |-> TRUE]

\* C17: for every buffer and every point, boundary points included,
\* get_next_word_region_from_pt returns a word region that begins at or after
\* the point and get_previous_word_region_from_pt one that ends at or before
\* the point (whenever the buffer has a word on that side of the point).
C17_DirectionalLocator ==
    cls.done =>
        /\ (\E s \in cls.pt..Len(buf) : IsWordStart(buf, s)) =>
              /\ Begin(cls.next) >= cls.pt
              /\ is_single_complete_word(buf, cls.next)
        /\ (\E e \in 0..cls.pt : IsWordEnd(buf, e)) =>
              /\ End(cls.previous) <= cls.pt
              /\ is_single_complete_word(buf, cls.previous)

\* the start of the caret's line and the offset at which it ends (its newline
\* or the end of the buffer)
CaretLineStart == TextPoint(buf, Row(Caret), 0)

CaretLineEnd ==
    LET ends == {p \in Caret..Len(buf) : p = Len(buf) \/ buf[p + 1] = "\n"}
    IN  Least(ends)

\* the words of the caret's line on the searched side of the caret, and the
\* words of the whole line
WordsAhead ==
    IF nav.forward THEN FindAll(buf, Region(Caret, CaretLineEnd))
    ELSE FindAll(buf, Region(CaretLineStart, Caret))

WordsOfLine == FindAll(buf, Region(CaretLineStart, CaretLineEnd))

\* the column a wrapped search restarts from
WrapColumn == IF nav.forward THEN 0 ELSE CaretLineEnd - CaretLineStart

\* C18: get_region_of_closest_word_in_line makes at most two line searches:
\* a first search that finds nothing returns None when wrap is off; when wrap
\* is on the search is made once more from the opposite end of the same line
\* (column 0 forward, the line's last column backward), unless the caret's
\* column is that column already, in which case None is returned without a
\* second search.
C18_AtMostTwoLineSearches ==
    (nav.cmd = "in_line" /\ nav.shape = "no_word") =>
        /\ nav.searches \in {1, 2}
        /\ WordsAhead # << >> =>
              nav.searches = 1 /\ nav.dest = ChooseRegion(WordsAhead, nav.forward)
        /\ (WordsAhead = << >> /\ ~Setting("wrap_line")) =>
              nav.searches = 1 /\ nav.dest = NoRegion
        /\ (WordsAhead = << >> /\ Setting("wrap_line")
                /\ RowCol(buf, Caret).col = WrapColumn) =>
              nav.searches = 1 /\ nav.dest = NoRegion
        /\ (WordsAhead = << >> /\ Setting("wrap_line")
                /\ RowCol(buf, Caret).col # WrapColumn) =>
              nav.searches = 2 /\ nav.dest = ChooseRegion(WordsOfLine, nav.forward)

\* the characters of the region classified last
ClassifiedText == Substr(buf, sel[1])

\* C19: is_not_part_of_any_word returns True for every (non-empty) region
\* that holds non-word characters only, wherever it lies in the buffer, also
\* when no word follows it before the end of the buffer, and False for every
\* region that holds at least one word character.
C19_NoWordIffNoWordCharacter ==
    (cls.done /\ ~Empty(sel[1])) =>
        cls.no_word = (\A k \in 1..Len(ClassifiedText) : ~IsWordChar(ClassifiedText[k]))

\* the calls made so far alternate between activation (log.reinit or
\* log.init) and deactivation (log.deinit), starting with an activation
Alternating ==
    \A i \in 1..Len(reg.calls) :
        IF i % 2 = 1 THEN reg.calls[i] \in {"reinit", "init"}
        ELSE reg.calls[i] = "deinit"

\* the listeners of log_level registered under the log module's tag
LogListeners ==
    {i \in 1..Len(callbacks["log_level"]) : callbacks["log_level"][i].tag = LogTag}

\* C20: in every alternating sequence of activations and deactivations that
\* starts with an activation every call completes without error; after a
\* deactivation the initialized flags of both modules are False and
\* log_level has no listener under the log module's tag; after an activation
\* there is exactly one such listener and exactly one log handler.
C20_LifecycleAlternation ==
    (reg.op # "none" /\ Alternating) =>
        /\ reg.err = "none"
        /\ reg.op = "deinit" =>
              /\ ~modules.log_initialized
              /\ ~modules.settings_initialized
              /\ LogListeners = {}
        /\ reg.op \in {"reinit", "init"} =>
              /\ Cardinality(LogListeners) = 1
              /\ Cardinality(modules.handlers) = 1

\* the last command was a same-word jump from a single complete word that
\* moved the selection to another occurrence without wrapping
JumpedWithoutWrap ==
    /\ nav.cmd = "same_word"
    /\ Len(nav.pre_sel) = 1
    /\ nav.shape = "single_word"
    /\ nav.searches = 1
    /\ nav.dest # NoRegion
    /\ sel = <<nav.dest>>
    /\ IF nav.forward THEN Begin(nav.dest) >= End(PreSel)
       ELSE End(nav.dest) <= Begin(PreSel)

\* C21: with a single complete word selected and the settings held fixed, a
\* forward same-word jump that moves to another occurrence without wrapping,
\* followed at once by a backward same-word jump, restores the occurrence
\* selected at first, begin and end offsets alike; and the same for a
\* backward jump followed by a forward jump.
C21_JumpThereAndBack ==
    [][(/\ JumpedWithoutWrap
        /\ nav'.cmd = "same_word"
        /\ nav'.forward # nav.forward
        /\ nav'.pre_sel = sel
        /\ value' = value
        /\ buf' = buf) =>
            /\ Len(sel') = 1
            /\ Begin(sel'[1]) = Begin(PreSel)
            /\ End(sel'[1]) = End(PreSel)
            /\ nav'.dest = sel'[1]]_vars

\* a backward jump went from a later occurrence to the nearest earlier one,
\* from which the forward jump leads to the occurrence just left: the second
\* half of a forward jump followed by a backward jump
C21_Witness ==
    /\ JumpedWithoutWrap
    /\ ~nav.forward
    /\ is_single_complete_word(buf, nav.dest)
    /\ get_region_of_closet_same_word(buf, nav.dest, TRUE, Setting("wrap_buffer"),
            Setting("case_sensitive")) = Region(Begin(PreSel), End(PreSel))
    /\ Substr(buf, nav.dest) # Substr(buf, PreSel)

\* position of every setting in the order of registration
Position == [n \in NameSet |-> CHOOSE i \in 1..Len(SettingNames) : SettingNames[i] = n]

\* a raw value the setting's validator does not accept
Invalid(name, raw) ==
    \/ ValidatorOf(name) = "ListValidator" /\ raw.kind # "str"
    \/ Validate(name, raw) = None

\* position of the first setting, in the order of registration, the store
\* holds an invalid value for; one past the last setting if there is none
FirstInvalid(store) ==
    Least({i \in 1..Len(SettingNames) :
                /\ store[SettingNames[i]] # Absent
                /\ Invalid(SettingNames[i], store[SettingNames[i]])}
          \cup {Len(SettingNames) + 1})

\* the listener calls of the reload made for setting n
FiredFor(n) == SelectSeq(reg.fired, LAMBDA e : e.name = n)

\* C22: a reload goes through the settings in the order of registration and
\* skips those absent from the store; when the store holds an invalid value
\* for a setting the reload raises at the first such setting: the settings
\* registered before it have taken their new values and fired their
\* listeners, that setting and every setting registered after it keep their
\* prior values, whatever the store holds for them.
C22_ReloadStopsAtFirstInvalid ==
    reg.op = "reload" =>
        \A k \in {FirstInvalid(reg.store)} :
            /\ reg.at = IF k > Len(SettingNames) THEN "none" ELSE SettingNames[k]
            /\ (reg.err # "none") <=> (k <= Len(SettingNames))
            /\ \A i \in 1..Len(SettingNames) :
                  \A n \in {SettingNames[i]} :
                      IF i < k /\ reg.store[n] # Absent
                      THEN /\ value[n] = Validate(n, reg.store[n])
                           /\ FiredFor(n) =
                                IF value[n] = reg.old_value[n] THEN << >>
                                ELSE FireAll(callbacks[n], n, reg.old_value[n], value[n])
                      ELSE /\ value[n] = reg.old_value[n]
                           /\ FiredFor(n) = << >>
            /\ \A i, j \in 1..Len(reg.fired) :
                  i < j => Position[reg.fired[i].name] <= Position[reg.fired[j].name]

\* a reload raised at a setting with an invalid value after an earlier
\* setting took its new value and fired its listener, and a later setting
\* kept its value although the store held a valid new one for it
C22_Witness ==
    /\ reg.op = "reload"
    /\ reg.err # "none"
    /\ \E n, m \in Present(reg.store) :
          /\ Position[n] < Position[reg.at]
          /\ value[n] # reg.old_value[n]
          /\ FiredFor(n) # << >>
          /\ Position[reg.at] < Position[m]
          /\ ~Invalid(m, reg.store[m])
          /\ Validate(m, reg.store[m]) # reg.old_value[m]
          /\ value[m] = reg.old_value[m]
          /\ callbacks[m] # << >>

====
